---- MODULE Spec2Model ----
(***************************************************************************)
(* PyParamGUI: the simulation widget's callback (_simulate), the           *)
(* orchestration function generate_model_parameter_and_data_files with its *)
(* three file-generating steps, the coordinate generator, the label-driven *)
(* parameter rewrite and the YAML sanitizer.  The glotaran calls           *)
(* (generate_model, save_model,                                            *)
(* validate, save_parameters, simulate, save_dataset, plot) are external:  *)
(* each either succeeds with its documented effect or raises.              *)
(***************************************************************************)
EXTENDS Integers, Sequences, FiniteSets, TLC

VARIABLES
    widget,       \* trait values of the Widget instance (widget.py:55-75)
    files,        \* the working directory: file name -> content
    pc,           \* position of the running call; "idle" when none runs
    outcome,      \* how the last call ended: "none", "returned", "raised"
    failed_at,    \* the step whose exception left the last call
    log,          \* steps the current call has completed, in order
    writes,       \* file-system effects of the current call, in order
    run,          \* number of calls started so far (the current call's id)
    entry,        \* how the current call was entered
    module,       \* "utils" (utils.py) or "io" (io.py) pipeline
    change,       \* the argument _simulate was called with
    config,       \* the SimulationConfig of the current call
    model,        \* the generated Model of the current call
    generated,    \* what model.generate_parameters() returned
    parameters,   \* the Parameters object of the current call
    validated,    \* the parameter set model.validate() was given
    sim_input,    \* the parameter set simulate() was given
    events,       \* trigger events (changes of the simulate trait) so far
    handled,      \* observer calls of _simulate started so far
    notify,       \* handlers still to be called for the current event
    ui_output     \* what the calls have shown in the notebook UI

vars == <<widget, files, pc, outcome, failed_at, log, writes, run, entry, module,
          change, config, model, generated, parameters, validated, sim_input,
          events, handled, notify, ui_output>>

\* Bounds of the model.
MaxLen == 2
MaxRuns == 2
MaxPoints == 3
MaxWavelength == 3
Precision == 5

(***************************************************************************)
(* Strings are sequences of one-character strings, so that startswith,     *)
(* split, the in operator and int() are computed as Python computes them.  *)
(***************************************************************************)
S_rates == <<"r","a","t","e","s">>
S_shapes == <<"s","h","a","p","e","s">>
S_species == <<"s","p","e","c","i","e","s">>
S_irf == <<"i","r","f">>
S_amplitude == <<"a","m","p","l","i","t","u","d","e">>
S_location == <<"l","o","c","a","t","i","o","n">>
S_width == <<"w","i","d","t","h">>
S_skewness == <<"s","k","e","w","n","e","s","s">>
S_center == <<"c","e","n","t","e","r">>
Dot == <<".">>
Underscore == <<"_">>

DigitChars == <<"0","1","2","3","4","5","6","7","8","9">>

IsDigit(c) == \E d \in 1..10 : DigitChars[d] = c

DigitValue(c) == (CHOOSE d \in 1..10 : DigitChars[d] = c) - 1

\* str(n) of a natural number, as an f-string formats it.
RECURSIVE IntToStr(_)
IntToStr(n) ==
    IF n < 10 THEN <<DigitChars[n + 1]>>
    ELSE IntToStr(n \div 10) \o <<DigitChars[(n % 10) + 1]>>

\* int(s) of a string of decimal digits; ok is FALSE where int raises ValueError.
RECURSIVE DigitsToInt(_, _)
DigitsToInt(s, acc) ==
    IF s = <<>> THEN acc ELSE DigitsToInt(Tail(s), acc * 10 + DigitValue(Head(s)))

int(s) ==
    IF s # <<>> /\ \A i \in 1..Len(s) : IsDigit(s[i])
    THEN [ok |-> TRUE, v |-> DigitsToInt(s, 0)]
    ELSE [ok |-> FALSE, v |-> 0]

\* s.startswith(p)
startswith(s, p) == Len(s) >= Len(p) /\ SubSeq(s, 1, Len(p)) = p

\* sub in s
contains(s, sub) ==
    \E i \in 1..(Len(s) - Len(sub) + 1) : SubSeq(s, i, i + Len(sub) - 1) = sub

\* s.split(sep) for a one-character separator: the list of pieces.
RECURSIVE split(_, _)
split(s, sep) ==
    IF s = <<>> THEN << <<>> >>
    ELSE LET rest == split(Tail(s), sep)
         IN IF Head(s) = sep
            THEN << <<>> >> \o rest
            ELSE << <<Head(s)>> \o Head(rest) >> \o Tail(rest)

\* lst[idx] of a Python list: negative indices count from the end,
\* anything outside -len..len-1 raises IndexError (ok = FALSE).
PyIndex(lst, idx) ==
    IF idx >= 0 /\ idx < Len(lst) THEN [ok |-> TRUE, v |-> lst[idx + 1]]
    ELSE IF idx < 0 /\ idx >= -Len(lst) THEN [ok |-> TRUE, v |-> lst[Len(lst) + idx + 1]]
    ELSE [ok |-> FALSE, v |-> 0]

(***************************************************************************)
(* YAML values: None, scalars, lists and dictionaries.                     *)
(***************************************************************************)
NoneV == [t |-> "none"]
Scalar == [t |-> "scalar"]
ListV(items) == [t |-> "list", items |-> items]
DictV(d) == [t |-> "dict", d |-> d]
EmptyList == ListV(<<>>)
EmptyDict == DictV(<<>>)

\* v in (None, [], {})
IsEmptyEntry(v) ==
    \/ v.t = "none"
    \/ v.t = "list" /\ Len(v.items) = 0
    \/ v.t = "dict" /\ DOMAIN v.d = {}

RECURSIVE _sanitize_dict(_)
_sanitize_dict(d) ==
    IF d.t # "dict" THEN d
    ELSE LET keep == {k \in DOMAIN d.d : ~IsEmptyEntry(d.d[k])}
         IN DictV([k \in keep |-> _sanitize_dict(d.d[k])])

(***************************************************************************)
(* Numbers.  A Python number is an int (exact) or a float: a binary        *)
(* floating-point value whose significand has Precision bits (53 in        *)
(* Python), every operation rounded to the nearest value, ties to the even *)
(* significand.  A number is the fraction n/d in lowest terms; only        *)
(* numbers >= 0 occur, and no exponent is out of range.                    *)
(***************************************************************************)
RECURSIVE Pow2(_)
Pow2(k) == IF k = 0 THEN 1 ELSE 2 * Pow2(k - 1)

RECURSIVE GCD(_, _)
GCD(a, b) == IF b = 0 THEN a ELSE GCD(b, a % b)

PyInt(k) == [int |-> TRUE, n |-> k, d |-> 1]

PyFloat(n, d) == [int |-> FALSE, n |-> n \div GCD(n, d), d |-> d \div GCD(n, d)]

\* a/b rounded to the nearest integer, a tie to the even one.
RoundHalfEven(a, b) ==
    LET q == a \div b
        r == a % b
    IN IF 2 * r < b THEN q
       ELSE IF 2 * r > b THEN q + 1
       ELSE IF q % 2 = 0 THEN q ELSE q + 1

\* The float nearest to n/d: n/d = m * up/dn with m scaled into
\* 2^(Precision-1) .. 2^Precision and then rounded.
RECURSIVE Round(_, _, _, _)
Round(n, d, up, dn) ==
    IF n = 0 THEN PyFloat(0, 1)
    ELSE IF n * dn >= Pow2(Precision) * d * up THEN Round(n, d, 2 * up, dn)
    ELSE IF n * dn < Pow2(Precision - 1) * d * up THEN Round(n, d, up, 2 * dn)
    ELSE PyFloat(RoundHalfEven(n * dn, d * up) * up, dn)

\* float(x)
float(x) == IF x.int THEN Round(x.n, x.d, 1, 1) ELSE x

\* x * y, x + y, x - y: exact on two ints, otherwise the rounded float.
Mul(x, y) ==
    IF x.int /\ y.int THEN PyInt(x.n * y.n)
    ELSE Round(float(x).n * float(y).n, float(x).d * float(y).d, 1, 1)

Add(x, y) ==
    IF x.int /\ y.int THEN PyInt(x.n + y.n)
    ELSE Round(float(x).n * float(y).d + float(y).n * float(x).d,
               float(x).d * float(y).d, 1, 1)

Sub(x, y) ==
    IF x.int /\ y.int THEN PyInt(x.n - y.n)
    ELSE Round(float(x).n * float(y).d - float(y).n * float(x).d,
               float(x).d * float(y).d, 1, 1)

\* x / y: always a float.
TrueDiv(x, y) == Round(float(x).n * float(y).d, float(x).d * float(y).n, 1, 1)

\* math.ceil(x)
Ceil(x) == (x.n + x.d - 1) \div x.d

Less(x, y) == x.n * y.d < y.n * x.d

\* np.arange(start, stop, step) for a float step: the length is
\* ceil((stop - start) / step); the first two elements are start and
\* start + step, and element i is start + i * delta, where delta is the
\* difference of the first two elements.
arange(start, stop, step) ==
    LET length == Ceil(TrueDiv(Sub(stop, start), step))
        first == float(start)
        second == float(Add(start, step))
        delta == Sub(second, first)
    IN [i \in 1..length |->
           IF i = 1 THEN first
           ELSE IF i = 2 THEN second
           ELSE Add(first, Mul(float(PyInt(i - 1)), delta))]

(***************************************************************************)
(* The simulation configuration (schema.py) built from the widget fields.  *)
(***************************************************************************)
NoValue == [t |-> "none"]

\* pydantic's conversion of a field value to int: a float without a
\* fractional part is accepted, any other float is a validation error.
IsWhole(x) == x.d = 1

TimeCoordinates(timepoints_max, timepoints_stepsize) ==
    [timepoints_max |-> PyInt(timepoints_max.n),
     timepoints_stepsize |-> float(timepoints_stepsize)]

SpectralCoordinates(wavelength_min, wavelength_max, wavelength_stepsize) ==
    [wavelength_min |-> PyInt(wavelength_min.n),
     wavelength_max |-> PyInt(wavelength_max.n),
     wavelength_stepsize |-> float(wavelength_stepsize)]

generate_simulation_coordinates(time_coordinates, spectral_coordinates) ==
    LET time_axis ==
            arange(PyInt(0),
                   Mul(time_coordinates.timepoints_max,
                       time_coordinates.timepoints_stepsize),
                   time_coordinates.timepoints_stepsize)
        spectral_axis ==
            arange(spectral_coordinates.wavelength_min,
                   spectral_coordinates.wavelength_max,
                   spectral_coordinates.wavelength_stepsize)
    IN [time |-> time_axis, spectral |-> spectral_axis]

\* The values _simulate passes to the schema are accepted by it.
ValidInputs(widget_instance) ==
    /\ IsWhole(widget_instance.timepoints_max_input)
    /\ IsWhole(widget_instance.wavelength_min_input)
    /\ IsWhole(widget_instance.wavelength_max_input)

\* SimulationConfig(...) as _simulate builds it from the widget instance.
SimulationConfig(widget_instance) ==
    [kinetic_parameters |-> [decay_rates |-> widget_instance.decay_rates_input],
     spectral_parameters |->
        [amplitude |-> widget_instance.amplitude_input,
         location |-> widget_instance.location_input,
         width |-> widget_instance.width_input,
         skewness |-> widget_instance.skewness_input],
     coordinates |->
        generate_simulation_coordinates(
            TimeCoordinates(widget_instance.timepoints_max_input,
                            widget_instance.timepoints_stepsize_input),
            SpectralCoordinates(widget_instance.wavelength_min_input,
                                widget_instance.wavelength_max_input,
                                widget_instance.wavelength_stepsize_input)),
     settings |->
        [stdev_noise |-> widget_instance.stdev_noise_input,
         seed |-> widget_instance.seed_input,
         add_gaussian_irf |-> widget_instance.add_gaussian_irf_input,
         use_sequential_scheme |-> widget_instance.use_sequential_scheme_input],
     irf |-> [center |-> widget_instance.irf_location_input,
              width |-> widget_instance.irf_width_input]]

(***************************************************************************)
(* The generated model and its parameters.  pyparamgui.generator and       *)
(* glotaran's Model are not part of the sources; the labels follow the     *)
(* scheme the rewrite parses: rates.species_<i>, shapes.species_<i>.<attr> *)
(* and irf.center / irf.width.                                             *)
(***************************************************************************)
ShapeAttributes == <<S_amplitude, S_location, S_width, S_skewness>>

RateLabel(i) == S_rates \o Dot \o S_species \o Underscore \o IntToStr(i)

ShapeLabel(i, attribute) ==
    S_shapes \o Dot \o S_species \o Underscore \o IntToStr(i) \o Dot \o attribute

IrfLabel(attribute) == S_irf \o Dot \o attribute

Parameter(label, value) == [label |-> label, value |-> value]

generate_model(generator_name, generator_arguments) ==
    [generator_name |-> generator_name,
     nr_compartments |-> generator_arguments.nr_compartments,
     irf |-> generator_arguments.irf]

RECURSIVE SpeciesParameters(_, _)
SpeciesParameters(i, n) ==
    IF i > n THEN <<>>
    ELSE <<Parameter(RateLabel(i), 0)>>
         \o [a \in 1..Len(ShapeAttributes) |-> Parameter(ShapeLabel(i, ShapeAttributes[a]), 0)]
         \o SpeciesParameters(i + 1, n)

\* model.generate_parameters(): every parameter of the model at its default.
generate_parameters(m) ==
    SpeciesParameters(1, m.nr_compartments)
    \o (IF m.irf THEN <<Parameter(IrfLabel(S_center), 0), Parameter(IrfLabel(S_width), 0)>>
        ELSE <<>>)

(***************************************************************************)
(* The label-driven rewrite (utils.py:64-125).  Each update returns the    *)
(* parameter with its new value, or the exception the Python code raises.  *)
(***************************************************************************)
Updated(param, value) == [err |-> "none", param |-> [param EXCEPT !.value = value]]
Untouched(param) == [err |-> "none", param |-> param]
Raised(param, err) == [err |-> err, param |-> param]

\* An assignment that leaves the parameter alone when the list is too short.
AssignedIfPresent(param, lst, idx) ==
    LET item == PyIndex(lst, idx)
    IN IF item.ok THEN Updated(param, item.v) ELSE Untouched(param)

Assigned(param, lst, idx) ==
    LET item == PyIndex(lst, idx)
    IN IF item.ok THEN Updated(param, item.v) ELSE Raised(param, "IndexError")

\* _update_shape_parameter without the shift from species number to list index.
ShapeIndexNotShifted(param, label, simulation_config) ==
    LET parts == split(label, ".")
        species_index == int(split(parts[2], "_")[2]).v
        attribute == parts[3]
        spectral_params == simulation_config.spectral_parameters
    IN IF attribute = S_amplitude
       THEN Assigned(param, spectral_params.amplitude, species_index)
       ELSE IF attribute = S_location
       THEN Assigned(param, spectral_params.location, species_index)
       ELSE IF attribute = S_width
       THEN Assigned(param, spectral_params.width, species_index)
       ELSE IF attribute = S_skewness
       THEN Assigned(param, spectral_params.skewness, species_index)
       ELSE Untouched(param)

_update_shape_parameter(param, label, simulation_config) ==
    LET parts == split(label, ".")
    IN IF Len(parts) < 2 THEN Raised(param, "IndexError")
       ELSE LET pieces == split(parts[2], "_")
            IN IF Len(pieces) < 2 THEN Raised(param, "IndexError")
               ELSE IF ~int(pieces[2]).ok THEN Raised(param, "ValueError")
               ELSE IF Len(parts) < 3 THEN Raised(param, "IndexError")
               ELSE LET species_index == int(pieces[2]).v - 1
                        attribute == parts[3]
                        spectral_params == simulation_config.spectral_parameters
                    IN IF attribute = S_amplitude
                       THEN Assigned(param, spectral_params.amplitude, species_index)
                       ELSE IF attribute = S_location
                       THEN Assigned(param, spectral_params.location, species_index)
                       ELSE IF attribute = S_width
                       THEN Assigned(param, spectral_params.width, species_index)
                       ELSE IF attribute = S_skewness
                       THEN Assigned(param, spectral_params.skewness, species_index)
                       ELSE Untouched(param)

_update_rate_parameter(param, label, simulation_config) ==
    LET pieces == split(label, "_")
    IN IF Len(pieces) < 2 THEN Raised(param, "IndexError")
       ELSE IF ~int(pieces[2]).ok THEN Raised(param, "ValueError")
       ELSE Assigned(param, simulation_config.kinetic_parameters.decay_rates,
                     int(pieces[2]).v - 1)

_update_irf_parameter(param, label, simulation_config) ==
    IF contains(label, S_width) THEN Updated(param, simulation_config.irf.width)
    ELSE IF contains(label, S_center) THEN Updated(param, simulation_config.irf.center)
    ELSE Untouched(param)

\* The loop body with the IRF branch taken whatever add_gaussian_irf says.
UpdateOneIgnoringFlag(param, simulation_config) ==
    LET label == param.label
    IN IF startswith(label, S_shapes \o Dot \o S_species \o Underscore)
       THEN _update_shape_parameter(param, label, simulation_config)
       ELSE IF startswith(label, S_rates \o Dot \o S_species \o Underscore)
       THEN _update_rate_parameter(param, label, simulation_config)
       ELSE IF startswith(label, S_irf)
       THEN _update_irf_parameter(param, label, simulation_config)
       ELSE Untouched(param)

\* The body of the loop of _update_parameter_values for one parameter.
UpdateOne(param, simulation_config) ==
    LET label == param.label
    IN IF startswith(label, S_shapes \o Dot \o S_species \o Underscore)
       THEN _update_shape_parameter(param, label, simulation_config)
       ELSE IF startswith(label, S_rates \o Dot \o S_species \o Underscore)
       THEN _update_rate_parameter(param, label, simulation_config)
       ELSE IF startswith(label, S_irf) /\ simulation_config.settings.add_gaussian_irf
       THEN _update_irf_parameter(param, label, simulation_config)
       ELSE Untouched(param)

\* for param in parameters.all(): ... ; the first exception leaves the loop.
RECURSIVE UpdateFrom(_, _, _)
UpdateFrom(params, i, simulation_config) ==
    IF i > Len(params) THEN [err |-> "none", parameters |-> params]
    ELSE LET r == UpdateOne(params[i], simulation_config)
         IN IF r.err # "none" THEN [err |-> r.err, parameters |-> params]
            ELSE UpdateFrom([params EXCEPT ![i] = r.param], i + 1, simulation_config)

_update_parameter_values(params, simulation_config) == UpdateFrom(params, 1, simulation_config)

(***************************************************************************)
(* Files.  A content records what wrote it (kind), the call that wrote it  *)
(* (run) and the data written.                                             *)
(***************************************************************************)
TempModel == "temp_model.yml"

FileNames == {"model.yml", "parameters.csv", "dataset.nc", TempModel}

Absent == [kind |-> "absent"]

Exists(name) == files[name].kind # "absent"

\* The mapping save_model writes: the model's dictionary with the unset
\* (None) and empty ([] / {}) entries the sanitizer is there to remove.
SavedModelDict(m) ==
    DictV("default_megacomplex" :> NoneV
          @@ "clp_penalties" :> EmptyList
          @@ "megacomplex" :> DictV("type" :> Scalar @@ "dimension" :> NoneV)
          @@ "irf" :> (IF m.irf THEN DictV("gaussian_irf" :> DictV("type" :> Scalar))
                       ELSE EmptyDict))

\* yaml.safe_load of a file's content.
YamlLoad(content) ==
    IF content.kind \in {"model_raw", "model"} THEN content.data ELSE Scalar

(***************************************************************************)
(* Control flow.  Pipeline is the order of the steps of                    *)
(* generate_model_parameter_and_data_files; _simulate wraps it between     *)
(* reading the widget and showing the plot.                                *)
(***************************************************************************)
\* utils.py with the parameters validated before they are rewritten.
UtilsPipelineValidateFirst ==
    <<"generate_model", "save_model", "sanitize", "unlink",
      "generate_parameters", "validate", "update_parameter_values",
      "save_parameters", "simulate", "save_dataset">>

\* utils.py: _generate_model_file, _generate_parameter_file, _generate_data_file.
UtilsPipeline ==
    <<"generate_model", "save_model", "sanitize", "unlink",
      "generate_parameters", "update_parameter_values", "validate",
      "save_parameters", "simulate", "save_dataset">>

\* io.py: the same three functions, without the unlink and without the rewrite.
IoPipeline ==
    <<"generate_model", "save_model", "sanitize",
      "generate_parameters", "validate",
      "save_parameters", "simulate", "save_dataset">>

Pipeline(mod) == IF mod = "utils" THEN UtilsPipeline ELSE IoPipeline

CallSteps(mod, ent) ==
    IF ent = "api" THEN Pipeline(mod)
    ELSE <<"read_change", "build_config">> \o Pipeline(mod) \o <<"visualize">>

IndexOf(seq, x) == CHOOSE i \in 1..Len(seq) : seq[i] = x

NextStep(mod, ent, step) ==
    LET steps == CallSteps(mod, ent)
        i == IndexOf(steps, step)
    IN IF i = Len(steps) THEN "idle" ELSE steps[i + 1]

\* The step completed: control moves on; after the last step the call returns.
Done(step) ==
    /\ pc' = NextStep(module, entry, step)
    /\ log' = Append(log, step)
    /\ outcome' = IF NextStep(module, entry, step) = "idle" THEN "returned" ELSE outcome
    /\ UNCHANGED failed_at

\* A failure that is caught and shown in the UI as an error status.
FailReported(step) ==
    /\ pc' = "idle"
    /\ outcome' = "raised"
    /\ failed_at' = step
    /\ ui_output' = Append(ui_output, "error")
    /\ UNCHANGED <<files, log, writes>>

\* A failure that removes the files the call has written so far.
FailWithCleanup(step) ==
    /\ pc' = "idle"
    /\ outcome' = "raised"
    /\ failed_at' = step
    /\ files' = [f \in DOMAIN files |->
                    IF \E i \in 1..Len(writes) : writes[i].file = f
                    THEN [kind |-> "absent"] ELSE files[f]]
    /\ UNCHANGED <<log, writes, ui_output>>

\* The step raised: nothing catches the exception, it leaves the call.
Fail(step) ==
    /\ pc' = "idle"
    /\ outcome' = "raised"
    /\ failed_at' = step
    /\ UNCHANGED <<files, log, writes, ui_output>>

Write(name, content) ==
    /\ files' = [files EXCEPT ![name] = content]
    /\ writes' = Append(writes, [file |-> name, content |-> content])

StartCall(ent, chg, mod, cfg) ==
    /\ run' = run + 1
    /\ entry' = ent
    /\ change' = chg
    /\ module' = mod
    /\ pc' = CallSteps(mod, ent)[1]
    /\ outcome' = "none"
    /\ failed_at' = "none"
    /\ log' = <<>>
    /\ writes' = <<>>
    /\ ui_output' = <<>>
    /\ config' = cfg
    /\ model' = NoValue
    /\ generated' = NoValue
    /\ parameters' = NoValue
    /\ validated' = NoValue
    /\ sim_input' = NoValue
    /\ UNCHANGED <<widget, files>>

Quiet == pc = "idle" /\ notify = <<>>

callState == <<run, entry, module, change, events, handled, notify, widget>>

(***************************************************************************)
(* Entry points.                                                           *)
(***************************************************************************)
\* The handler registered a second time.
ObserversTwice == <<"_simulate", "_simulate">>

\* Widget.__init__: self.observe(handler=_simulate, names=["simulate"]).
Observers == <<"_simulate">>

\* The front end changes the simulate trait; traitlets notifies the observers.
TriggerEvent ==
    /\ Quiet
    /\ run < MaxRuns
    /\ events' = events + 1
    /\ notify' = Observers
    /\ UNCHANGED <<widget, files, pc, outcome, failed_at, log, writes, run, entry,
                   module, change, config, model, generated, parameters, validated,
                   sim_input, handled, ui_output>>

\* traitlets calls the handler with the change, whose owner is the widget.
Notify ==
    /\ pc = "idle"
    /\ notify # <<>>
    /\ StartCall("observer", [owner |-> "widget"], "utils", NoValue)
    /\ handled' = handled + 1
    /\ notify' = Tail(notify)
    /\ UNCHANGED events

\* tests/test_simulate.py: _simulate(None).
TestCall ==
    /\ Quiet
    /\ run < MaxRuns
    /\ StartCall("test", NoneV, "utils", NoValue)
    /\ UNCHANGED <<events, handled, notify>>

\* The front end syncs an edited form field between two events.
EditField ==
    /\ Quiet
    /\ widget' = [widget EXCEPT !.add_gaussian_irf_input = ~@]
    /\ UNCHANGED <<files, pc, outcome, failed_at, log, writes, run, entry, module,
                   change, config, model, generated, parameters, validated,
                   sim_input, events, handled, notify, ui_output>>

\* A caller invokes generate_model_parameter_and_data_files of utils.py or io.py.
ApiCall ==
    /\ Quiet
    /\ run = 0
    /\ \E mod \in {"utils", "io"} : StartCall("api", NoValue, mod, SimulationConfig(widget))
    /\ UNCHANGED <<events, handled, notify>>

(***************************************************************************)
(* _simulate (widget.py:82-131).                                           *)
(***************************************************************************)
\* widget_instance = change["owner"]: None is not subscriptable.
read_change ==
    /\ pc = "read_change"
    /\ IF change = NoneV
       THEN Fail("read_change")
       ELSE Done("read_change") /\ UNCHANGED <<files, writes, ui_output>>
    /\ UNCHANGED <<config, model, generated, parameters, validated, sim_input>>
    /\ UNCHANGED callState

build_config ==
    /\ pc = "build_config"
    /\ \E ok \in BOOLEAN :
          IF ok /\ ValidInputs(widget)
          THEN /\ config' = SimulationConfig(widget)
               /\ Done("build_config")
               /\ UNCHANGED <<files, writes, ui_output>>
          ELSE Fail("build_config") /\ UNCHANGED config
    /\ UNCHANGED <<model, generated, parameters, validated, sim_input>>
    /\ UNCHANGED callState

visualize ==
    /\ pc = "visualize"
    /\ IF widget.visualize_data
       THEN \E ok \in BOOLEAN :
               IF ok /\ Exists(widget.data_file_name_input)
               THEN /\ ui_output' = Append(ui_output, "plot")
                    /\ Done("visualize")
                    /\ UNCHANGED <<files, writes>>
               ELSE Fail("visualize")
       ELSE Done("visualize") /\ UNCHANGED <<files, writes, ui_output>>
    /\ UNCHANGED <<config, model, generated, parameters, validated, sim_input>>
    /\ UNCHANGED callState

(***************************************************************************)
(* generate_model_parameter_and_data_files and its steps.                  *)
(***************************************************************************)
\* The parallel generator whatever the scheme setting.
GeneratorAlwaysParallel(simulation_config) == "spectral_decay_parallel"

\* generator_name = "spectral_decay_sequential" if ... else "spectral_decay_parallel"
GeneratorName(simulation_config) ==
    IF simulation_config.settings.use_sequential_scheme
    THEN "spectral_decay_sequential"
    ELSE "spectral_decay_parallel"

\* nr_compartments (utils.py:206) and _generate_model_file up to generate_model.
generate_model_step ==
    /\ pc = "generate_model"
    /\ \E ok \in BOOLEAN :
          IF ok
          THEN /\ LET nr_compartments == Len(config.kinetic_parameters.decay_rates)
                      generator_name == GeneratorName(config)
                  IN model' = generate_model(generator_name,
                                 [nr_compartments |-> nr_compartments,
                                  irf |-> config.settings.add_gaussian_irf])
               /\ Done("generate_model")
               /\ UNCHANGED <<files, writes, ui_output>>
          ELSE Fail("generate_model") /\ UNCHANGED model
    /\ UNCHANGED <<config, generated, parameters, validated, sim_input>>
    /\ UNCHANGED callState

\* save_model(model, "temp_model.yml", allow_overwrite=True)
save_model ==
    /\ pc = "save_model"
    /\ \E ok \in BOOLEAN :
          IF ok
          THEN /\ Write(TempModel, [kind |-> "model_raw", run |-> run, model |-> model,
                                    data |-> SavedModelDict(model)])
               /\ Done("save_model")
               /\ UNCHANGED ui_output
          ELSE Fail("save_model")
    /\ UNCHANGED <<config, model, generated, parameters, validated, sim_input>>
    /\ UNCHANGED callState

\* _sanitize_yaml_file: load input_file, sanitize, dump to output_file.
sanitize_yaml_file ==
    /\ pc = "sanitize"
    /\ \E ok \in BOOLEAN :
          IF ok /\ Exists(TempModel)
          THEN /\ LET data == YamlLoad(files[TempModel])
                      sanitized_data == _sanitize_dict(data)
                  IN Write(widget.model_file_name_input,
                           [kind |-> "model", run |-> files[TempModel].run,
                            data |-> sanitized_data])
               /\ Done("sanitize")
               /\ UNCHANGED ui_output
          ELSE Fail("sanitize")
    /\ UNCHANGED <<config, model, generated, parameters, validated, sim_input>>
    /\ UNCHANGED callState

\* Path(input_file).unlink() (utils.py only)
unlink ==
    /\ pc = "unlink"
    /\ \E ok \in BOOLEAN :
          IF ok /\ Exists(TempModel)
          THEN /\ Write(TempModel, Absent)
               /\ Done("unlink")
               /\ UNCHANGED ui_output
          ELSE Fail("unlink")
    /\ UNCHANGED <<config, model, generated, parameters, validated, sim_input>>
    /\ UNCHANGED callState

\* parameters = model.generate_parameters()
generate_parameters_step ==
    /\ pc = "generate_parameters"
    /\ \E ok \in BOOLEAN :
          IF ok
          THEN /\ generated' = generate_parameters(model)
               /\ parameters' = generate_parameters(model)
               /\ Done("generate_parameters")
               /\ UNCHANGED <<files, writes, ui_output>>
          ELSE Fail("generate_parameters") /\ UNCHANGED <<generated, parameters>>
    /\ UNCHANGED <<config, model, validated, sim_input>>
    /\ UNCHANGED callState

\* updated_parameters = _update_parameter_values(parameters, simulation_config)
update_parameter_values ==
    /\ pc = "update_parameter_values"
    /\ LET updated == _update_parameter_values(parameters, config)
       IN IF updated.err = "none"
          THEN /\ parameters' = updated.parameters
               /\ Done("update_parameter_values")
               /\ UNCHANGED <<files, writes, ui_output>>
          ELSE Fail("update_parameter_values") /\ UNCHANGED parameters
    /\ UNCHANGED <<config, model, generated, validated, sim_input>>
    /\ UNCHANGED callState

\* model.validate(updated_parameters)
validate ==
    /\ pc = "validate"
    /\ \E ok \in BOOLEAN :
          IF ok
          THEN /\ validated' = parameters
               /\ Done("validate")
               /\ UNCHANGED <<files, writes, ui_output>>
          ELSE Fail("validate") /\ UNCHANGED validated
    /\ UNCHANGED <<config, model, generated, parameters, sim_input>>
    /\ UNCHANGED callState

\* save_parameters(updated_parameters, file_name, allow_overwrite=True)
save_parameters ==
    /\ pc = "save_parameters"
    /\ \E ok \in BOOLEAN :
          IF ok
          THEN /\ Write(widget.parameter_file_name_input,
                        [kind |-> "parameters", run |-> run, data |-> parameters])
               /\ Done("save_parameters")
               /\ UNCHANGED ui_output
          ELSE Fail("save_parameters")
    /\ UNCHANGED <<config, model, generated, parameters, validated, sim_input>>
    /\ UNCHANGED callState

\* data = simulate(model, "dataset_1", parameters, coordinates, noise=..., ...)
simulate ==
    /\ pc = "simulate"
    /\ \E ok \in BOOLEAN :
          IF ok
          THEN /\ sim_input' = parameters
               /\ Done("simulate")
               /\ UNCHANGED <<files, writes, ui_output>>
          ELSE Fail("simulate") /\ UNCHANGED sim_input
    /\ UNCHANGED <<config, model, generated, parameters, validated>>
    /\ UNCHANGED callState

\* save_dataset(data, file_name, "nc", allow_overwrite=True)
save_dataset ==
    /\ pc = "save_dataset"
    /\ \E ok \in BOOLEAN :
          IF ok
          THEN /\ Write(widget.data_file_name_input,
                        [kind |-> "dataset", run |-> run,
                         data |-> [model |-> model, parameters |-> sim_input,
                                   noise |-> config.settings.stdev_noise # 0]])
               /\ Done("save_dataset")
               /\ UNCHANGED ui_output
          ELSE Fail("save_dataset")
    /\ UNCHANGED <<config, model, generated, parameters, validated, sim_input>>
    /\ UNCHANGED callState

PipelineStep ==
    \/ generate_model_step
    \/ save_model
    \/ sanitize_yaml_file
    \/ unlink
    \/ generate_parameters_step
    \/ update_parameter_values
    \/ validate
    \/ save_parameters
    \/ simulate
    \/ save_dataset

(***************************************************************************)
(* Initial states.                                                         *)
(***************************************************************************)
\* A list of n distinct values, distinct from every other list's values.
ListOf(base, n) == [i \in 1..n |-> base + i]

Widget(rates, amp, loc, wid, skew, irf, seq, model_name, parameter_name, vis) ==
    [decay_rates_input |-> ListOf(100, rates),
     amplitude_input |-> ListOf(200, amp),
     location_input |-> ListOf(300, loc),
     width_input |-> ListOf(400, wid),
     skewness_input |-> ListOf(500, skew),
     timepoints_max_input |-> PyInt(2),
     timepoints_stepsize_input |-> PyFloat(1, 2),
     wavelength_min_input |-> PyFloat(0, 1),
     wavelength_max_input |-> PyFloat(2, 1),
     wavelength_stepsize_input |-> PyFloat(1, 1),
     stdev_noise_input |-> 1,
     seed_input |-> 42,
     add_gaussian_irf_input |-> irf,
     irf_location_input |-> 600,
     irf_width_input |-> 700,
     use_sequential_scheme_input |-> seq,
     model_file_name_input |-> model_name,
     parameter_file_name_input |-> parameter_name,
     data_file_name_input |-> "dataset.nc",
     visualize_data |-> vis]

InitRest ==
    /\ files = [f \in FileNames |-> Absent]
    /\ pc = "idle"
    /\ outcome = "none"
    /\ failed_at = "none"
    /\ log = <<>>
    /\ writes = <<>>
    /\ run = 0
    /\ entry = "none"
    /\ module = "utils"
    /\ change = NoValue
    /\ config = NoValue
    /\ model = NoValue
    /\ generated = NoValue
    /\ parameters = NoValue
    /\ validated = NoValue
    /\ sim_input = NoValue
    /\ events = 0
    /\ handled = 0
    /\ notify = <<>>
    /\ ui_output = <<>>

\* The widget with its form filled in for at least one species; the callback
\* is driven by UI events and by the test's direct call.
Init ==
    /\ \E rates \in 1..MaxLen, spectral \in 0..MaxLen,
          model_name \in {"model.yml", TempModel},
          parameter_name \in {"parameters.csv", TempModel}, vis \in BOOLEAN :
          widget = Widget(rates, spectral, spectral, spectral, spectral,
                          FALSE, FALSE, model_name, parameter_name, vis)
    /\ InitRest

Next ==
    \/ TriggerEvent
    \/ Notify
    \/ TestCall
    \/ EditField
    \/ read_change
    \/ build_config
    \/ PipelineStep
    \/ visualize

Spec == Init /\ [][Next]_vars

\* One call of generate_model_parameter_and_data_files (utils.py or io.py)
\* in an empty directory, for a model of at least one compartment and
\* spectral lists of every combination of lengths.
InitApi ==
    /\ \E rates \in 1..MaxLen, amp \in 0..MaxLen, loc \in 0..MaxLen,
          wid \in 0..MaxLen, skew \in 0..MaxLen, irf \in BOOLEAN, seq \in BOOLEAN :
          widget = Widget(rates, amp, loc, wid, skew, irf, seq,
                          "model.yml", "parameters.csv", TRUE)
    /\ InitRest

NextApi == ApiCall \/ PipelineStep

SpecApi == InitApi /\ [][NextApi]_vars

\* _sanitize_yaml_file applied to a temp_model.yml that save_model has just
\* written, for every nested mapping over two keys, two dictionaries deep.
Keys == {"a", "b"}

DictsOver(values) == {DictV(f) : f \in UNION {[K -> values] : K \in SUBSET Keys}}

Leaves == {NoneV, Scalar, EmptyList, ListV(<<Scalar>>), ListV(<<DictV("a" :> NoneV)>>)}

Mappings == DictsOver(Leaves \cup DictsOver(Leaves))

InitSanitize ==
    /\ widget = Widget(1, 1, 1, 1, 1, FALSE, FALSE, "model.yml", "parameters.csv", TRUE)
    /\ \E data \in Mappings, mod \in {"utils", "io"} :
          /\ module = mod
          /\ model = generate_model("spectral_decay_parallel",
                                    [nr_compartments |-> 1, irf |-> FALSE])
          /\ files = [f \in FileNames |->
                         IF f = TempModel
                         THEN [kind |-> "model_raw", run |-> 1, model |-> model,
                               data |-> data]
                         ELSE Absent]
          /\ writes = <<[file |-> TempModel, content |-> files[TempModel]]>>
    /\ pc = "sanitize"
    /\ outcome = "none"
    /\ failed_at = "none"
    /\ log = <<"generate_model", "save_model">>
    /\ run = 1
    /\ entry = "api"
    /\ change = NoValue
    /\ config = SimulationConfig(widget)
    /\ generated = NoValue
    /\ parameters = NoValue
    /\ validated = NoValue
    /\ sim_input = NoValue
    /\ events = 0
    /\ handled = 0
    /\ notify = <<>>
    /\ ui_output = <<>>

NextSanitize == sanitize_yaml_file \/ unlink

SpecSanitize == InitSanitize /\ [][NextSanitize]_vars

\* _update_parameter_values applied to what model.generate_parameters()
\* returned.  The labels a model generates are decided outside these sources,
\* so the set is any selection of labels: of the three handled kinds, of the
\* IRF kind without width or center, and of kinds the rewrite does not handle.
S_shift == <<"s","h","i","f","t">>
S_inputs == <<"i","n","p","u","t","s">>

LabelPool ==
    <<RateLabel(1), RateLabel(2), ShapeLabel(1, S_amplitude), ShapeLabel(1, S_skewness),
      IrfLabel(S_center), IrfLabel(S_width), IrfLabel(S_shift),
      S_inputs \o Dot \o <<"1">>, S_rates \o Dot \o <<"k","1">>, S_width>>

\* The parameters with the picked labels, each at a generated value of its own.
ParametersOf(picked) ==
    SelectSeq([i \in 1..Len(LabelPool) |-> Parameter(LabelPool[i], 10 + i)],
              LAMBDA param : param.label \in {LabelPool[i] : i \in picked})

InitUpdate ==
    /\ \E irf \in BOOLEAN, picked \in SUBSET (1..Len(LabelPool)) :
          /\ widget = Widget(1, 1, 1, 1, 1, irf, FALSE, "model.yml", "parameters.csv", TRUE)
          /\ generated = ParametersOf(picked)
    /\ parameters = generated
    /\ config = SimulationConfig(widget)
    /\ model = generate_model(GeneratorName(config),
                              [nr_compartments |-> 1,
                               irf |-> config.settings.add_gaussian_irf])
    /\ writes = <<[file |-> TempModel,
                   content |-> [kind |-> "model_raw", run |-> 1, model |-> model,
                                data |-> SavedModelDict(model)]],
                  [file |-> "model.yml",
                   content |-> [kind |-> "model", run |-> 1,
                                data |-> _sanitize_dict(SavedModelDict(model))]],
                  [file |-> TempModel, content |-> Absent]>>
    /\ files = [f \in FileNames |->
                   IF f = "model.yml" THEN writes[2].content ELSE Absent]
    /\ pc = "update_parameter_values"
    /\ outcome = "none"
    /\ failed_at = "none"
    /\ log = <<"generate_model", "save_model", "sanitize", "unlink", "generate_parameters">>
    /\ run = 1
    /\ entry = "api"
    /\ module = "utils"
    /\ change = NoValue
    /\ validated = NoValue
    /\ sim_input = NoValue
    /\ events = 0
    /\ handled = 0
    /\ notify = <<>>
    /\ ui_output = <<>>

NextUpdate == update_parameter_values

SpecUpdate == InitUpdate /\ [][NextUpdate]_vars

\* _simulate building the configuration, for every point count, every
\* wavelength range and every step that is a float between 1/2 and 2.
Steps ==
    {PyFloat(m, Pow2(Precision)) : m \in Pow2(Precision - 1)..(Pow2(Precision) - 1)}
    \cup {PyFloat(m, Pow2(Precision - 1)) : m \in Pow2(Precision - 1)..(Pow2(Precision) - 1)}

InitCoordinates ==
    /\ \E timepoints_max \in 0..MaxPoints, timepoints_stepsize \in Steps,
          wavelength_min \in 0..MaxWavelength, wavelength_max \in 0..MaxWavelength,
          wavelength_stepsize \in Steps :
          /\ wavelength_min <= wavelength_max
          /\ widget = [Widget(1, 1, 1, 1, 1, FALSE, FALSE, "model.yml", "parameters.csv", TRUE)
                         EXCEPT !.timepoints_max_input = PyInt(timepoints_max),
                                !.timepoints_stepsize_input = timepoints_stepsize,
                                !.wavelength_min_input = PyFloat(wavelength_min, 1),
                                !.wavelength_max_input = PyFloat(wavelength_max, 1),
                                !.wavelength_stepsize_input = wavelength_stepsize]
    /\ files = [f \in FileNames |-> Absent]
    /\ pc = "build_config"
    /\ outcome = "none"
    /\ failed_at = "none"
    /\ log = <<"read_change">>
    /\ writes = <<>>
    /\ run = 1
    /\ entry = "observer"
    /\ module = "utils"
    /\ change = [owner |-> "widget"]
    /\ config = NoValue
    /\ model = NoValue
    /\ generated = NoValue
    /\ parameters = NoValue
    /\ validated = NoValue
    /\ sim_input = NoValue
    /\ events = 1
    /\ handled = 1
    /\ notify = <<>>
    /\ ui_output = <<>>

NextCoordinates == build_config

SpecCoordinates == InitCoordinates /\ [][NextCoordinates]_vars

(***************************************************************************)
(* Properties.                                                             *)
(***************************************************************************)
IsPrefix(s, t) == Len(s) <= Len(t) /\ SubSeq(t, 1, Len(s)) = s

InLog(step) == \E i \in 1..Len(log) : log[i] = step

WrappingStep(step) == step \in {"read_change", "build_config", "visualize"}

IsPipelineStep(step) == ~WrappingStep(step)

\* The steps of generate_model_parameter_and_data_files the call has completed.
PipelineLog == SelectSeq(log, IsPipelineStep)

WriteKinds == [i \in 1..Len(writes) |-> writes[i].content.kind]

WidgetCall == entry \in {"observer", "test"}

\* C1: every run of utils' generate_model_parameter_and_data_files completes
\* its steps in one fixed order, each at most once: model generated, saved and
\* sanitized, then parameters generated, rewritten, validated and saved, then
\* the dataset simulated and saved; the files are written in that order too.
C1_FixedOrder ==
    (run > 0 /\ module = "utils") =>
        /\ IsPrefix(PipelineLog,
                    <<"generate_model", "save_model", "sanitize", "unlink",
                      "generate_parameters", "update_parameter_values", "validate",
                      "save_parameters", "simulate", "save_dataset">>)
        /\ IsPrefix(WriteKinds, <<"model_raw", "model", "absent", "parameters", "dataset">>)

C1_Witness ==
    /\ entry = "observer"
    /\ outcome = "returned"
    /\ Len(PipelineLog) = 10
    /\ Len(writes) = 5

\* C2: whenever _simulate returns without raising, a model file, a parameter
\* file and a data file each exist under the name the widget gives for it.
C2_FilesExist ==
    (WidgetCall /\ outcome = "returned") =>
        /\ Exists(widget.model_file_name_input)
        /\ Exists(widget.parameter_file_name_input)
        /\ Exists(widget.data_file_name_input)

\* C3: _simulate does not use its change argument: a call with None, as the
\* test makes it, does not fail on reading the argument.
C3_ChangeUnused == ~(entry = "test" /\ outcome = "raised" /\ failed_at = "read_change")

\* C4 (as claimed): the observer call reports its outcome to the UI, success
\* when the pipeline completes and an error when a step fails.
C4_OutcomeReported ==
    entry = "observer" =>
        /\ outcome = "returned" => \E i \in 1..Len(ui_output) : ui_output[i] = "success"
        /\ outcome = "raised" => \E i \in 1..Len(ui_output) : ui_output[i] = "error"

\* C4 (amended): the observer call builds the configuration from the field
\* values the widget holds during the call and runs the pipeline; it reports
\* no status: a failing step's exception leaves the callback with nothing
\* shown, and a completed call shows only the plot, when visualize_data is set.
C4_ExceptionPropagates ==
    entry = "observer" =>
        /\ (pc # "idle" /\ InLog("build_config")) => config = SimulationConfig(widget)
        /\ outcome = "raised" => ui_output = <<>>
        /\ outcome = "returned" =>
              ui_output = IF widget.visualize_data THEN <<"plot">> ELSE <<>>

C4_Witness ==
    /\ entry = "observer"
    /\ outcome = "raised"
    /\ failed_at = "validate"
    /\ config = SimulationConfig(widget)
    /\ widget.add_gaussian_irf_input

\* C5: the mapping _sanitize_yaml_file writes has no key, at any depth of
\* nested dictionaries, whose value is None, an empty list or an empty dictionary.
RECURSIVE HasEmptyEntry(_)
HasEmptyEntry(d) ==
    /\ d.t = "dict"
    /\ \E k \in DOMAIN d.d : IsEmptyEntry(d.d[k]) \/ HasEmptyEntry(d.d[k])

C5_NoEmptyEntries ==
    InLog("sanitize") => ~HasEmptyEntry(files[widget.model_file_name_input].data)

\* C6: after _update_parameter_values, for every species i up to the number
\* of compartments, rates.species_i holds decay_rates[i-1] and
\* shapes.species_i.<attribute> holds element i-1 of the list of that name.
Holds(label, value) ==
    /\ \E k \in 1..Len(parameters) : parameters[k].label = label
    /\ \A k \in 1..Len(parameters) :
          parameters[k].label = label => parameters[k].value = value

C6_ValuesRouted ==
    InLog("update_parameter_values") =>
        \A i \in 1..model.nr_compartments :
            /\ Holds(S_rates \o Dot \o S_species \o Underscore \o IntToStr(i),
                     config.kinetic_parameters.decay_rates[i])
            /\ Holds(S_shapes \o Dot \o S_species \o Underscore \o IntToStr(i)
                        \o Dot \o S_amplitude,
                     config.spectral_parameters.amplitude[i])
            /\ Holds(S_shapes \o Dot \o S_species \o Underscore \o IntToStr(i)
                        \o Dot \o S_location,
                     config.spectral_parameters.location[i])
            /\ Holds(S_shapes \o Dot \o S_species \o Underscore \o IntToStr(i)
                        \o Dot \o S_width,
                     config.spectral_parameters.width[i])
            /\ Holds(S_shapes \o Dot \o S_species \o Underscore \o IntToStr(i)
                        \o Dot \o S_skewness,
                     config.spectral_parameters.skewness[i])

C6_Witness ==
    /\ InLog("update_parameter_values")
    /\ model.nr_compartments = 2
    /\ Holds(RateLabel(2), 102)
    /\ Holds(ShapeLabel(1, S_location), 301)
    /\ Holds(ShapeLabel(2, S_width), 402)

SpectralLengths ==
    {Len(config.spectral_parameters.amplitude), Len(config.spectral_parameters.location),
     Len(config.spectral_parameters.width), Len(config.spectral_parameters.skewness)}

Completed == module = "utils" /\ outcome = "returned"

\* C7 (as claimed): in every configuration processed to completion the
\* decay_rates, amplitude, location, width and skewness lists have one length.
C7_EqualLengths ==
    Completed => SpectralLengths = {Len(config.kinetic_parameters.decay_rates)}

\* C7 (amended): in every configuration utils' pipeline processes to completion
\* each of amplitude, location, width and skewness has at least as many
\* elements as decay_rates; longer lists are accepted, the surplus is ignored.
C7_LongEnough ==
    Completed => \A n \in SpectralLengths : n >= Len(config.kinetic_parameters.decay_rates)

C7_Witness ==
    /\ Completed
    /\ Len(config.kinetic_parameters.decay_rates) = 1
    /\ Len(config.spectral_parameters.amplitude) = 2
    /\ Len(config.spectral_parameters.width) = 1

HasWrite(name) == \E i \in 1..Len(writes) : writes[i].file = name

LastWrite(name) ==
    LET i == CHOOSE j \in 1..Len(writes) :
                 /\ writes[j].file = name
                 /\ \A k \in (j + 1)..Len(writes) : writes[k].file # name
    IN writes[i].content

WritingSteps == {"save_model", "sanitize", "unlink", "save_parameters", "save_dataset"}

IsWritingStep(step) == step \in WritingSteps

\* C9: when a step fails the exception leaves the call: the failed step is the
\* one after the last completed step, no later step has run, no step ran
\* twice, exactly the writing steps that completed have written, and every
\* file they wrote still holds what was written.
C9_NoRecovery ==
    outcome = "raised" =>
        /\ pc = "idle"
        /\ IsPrefix(Append(log, failed_at),
                    <<"read_change", "build_config", "generate_model", "save_model",
                      "sanitize", "unlink", "generate_parameters",
                      "update_parameter_values", "validate", "save_parameters",
                      "simulate", "save_dataset", "visualize">>)
        /\ Len(writes) = Len(SelectSeq(log, IsWritingStep))
        /\ \A name \in FileNames : HasWrite(name) => files[name] = LastWrite(name)

C9_Witness ==
    /\ outcome = "raised"
    /\ failed_at = "simulate"
    /\ Len(writes) = 4
    /\ Exists(widget.parameter_file_name_input)
    /\ ~Exists(widget.data_file_name_input)

\* C10: the parameters are rewritten, then validated, then saved; the
\* parameter file holds the rewritten set, and the set given to simulate is
\* the set that was validated and saved.
C10_RewrittenValidatedSaved ==
    InLog("save_parameters") =>
        /\ IsPrefix(<<"generate_parameters", "update_parameter_values", "validate",
                      "save_parameters">>,
                    SelectSeq(log, LAMBDA step : step \in {"generate_parameters",
                        "update_parameter_values", "validate", "save_parameters"}))
        /\ LastWrite(widget.parameter_file_name_input).data
              = _update_parameter_values(generated, config).parameters
        /\ validated = LastWrite(widget.parameter_file_name_input).data
        /\ InLog("simulate") => sim_input = validated

\* C10 restricted to utils.py, where it holds.
C10_UtilsRewrittenValidatedSaved == module = "utils" => C10_RewrittenValidatedSaved

\* C12: the model is generated by the sequential generator exactly when
\* use_sequential_scheme is set and by the parallel generator otherwise, with
\* as many compartments as the configuration has decay rates, and with an IRF
\* exactly when add_gaussian_irf is set; the model saved is that model.
C12_GeneratorChosen ==
    InLog("generate_model") =>
        /\ model.generator_name \in {"spectral_decay_sequential", "spectral_decay_parallel"}
        /\ model.generator_name = "spectral_decay_sequential"
              <=> config.settings.use_sequential_scheme
        /\ model.nr_compartments = Len(config.kinetic_parameters.decay_rates)
        /\ model.irf <=> config.settings.add_gaussian_irf
        /\ InLog("save_model") => writes[1].content.model = model

C12_Witness ==
    /\ InLog("save_model")
    /\ config.settings.use_sequential_scheme
    /\ config.settings.add_gaussian_irf
    /\ Len(config.kinetic_parameters.decay_rates) = 2
    /\ model.generator_name = "spectral_decay_sequential"
    /\ model.nr_compartments = 2
    /\ model.irf

\* The parallel case of C12: neither setting set, one decay rate.
C12_ParallelWitness ==
    /\ InLog("generate_model")
    /\ ~config.settings.use_sequential_scheme
    /\ ~config.settings.add_gaussian_irf
    /\ model.generator_name = "spectral_decay_parallel"
    /\ model.nr_compartments = 1
    /\ ~model.irf

Handled(label) ==
    \/ startswith(label, S_shapes \o Dot \o S_species \o Underscore)
    \/ startswith(label, S_rates \o Dot \o S_species \o Underscore)
    \/ startswith(label, S_irf)

\* C13: _update_parameter_values adds and removes no parameter; with
\* add_gaussian_irf set, irf.width holds the configuration's irf.width and
\* irf.center its irf.center; with the flag not set every parameter whose
\* label starts with irf keeps its generated value; and in both cases every
\* parameter whose label starts with none of shapes.species_, rates.species_
\* and irf keeps its generated value.
C13_IrfAndFrame ==
    InLog("update_parameter_values") =>
        /\ Len(parameters) = Len(generated)
        /\ \A k \in 1..Len(parameters) :
              /\ parameters[k].label = generated[k].label
              /\ ~Handled(parameters[k].label) => parameters[k] = generated[k]
              /\ startswith(parameters[k].label, S_irf) =>
                    IF config.settings.add_gaussian_irf
                    THEN /\ parameters[k].label = S_irf \o Dot \o S_width
                              => parameters[k].value = config.irf.width
                         /\ parameters[k].label = S_irf \o Dot \o S_center
                              => parameters[k].value = config.irf.center
                    ELSE parameters[k] = generated[k]

\* The flag set: both IRF parameters rewritten next to an unhandled one.
C13_Witness ==
    /\ InLog("update_parameter_values")
    /\ config.settings.add_gaussian_irf
    /\ \E i, j, k \in 1..Len(parameters) :
          /\ parameters[i] = Parameter(IrfLabel(S_width), 700)
          /\ parameters[j] = Parameter(IrfLabel(S_center), 600)
          /\ ~Handled(parameters[k].label)
          /\ parameters[k] = generated[k]
          /\ generated[i].value # 700

\* The flag not set: IRF parameters present and left at their generated values.
C13_FlagOffWitness ==
    /\ InLog("update_parameter_values")
    /\ ~config.settings.add_gaussian_irf
    /\ \E i, j \in 1..Len(parameters) :
          /\ parameters[i].label = IrfLabel(S_width)
          /\ parameters[i] = generated[i]
          /\ parameters[j].label = RateLabel(1)
          /\ parameters[j] # generated[j]

\* C14: _sanitize_dict is idempotent: for the mapping d that was loaded and
\* sanitized, sanitizing the result again returns it unchanged,
\* _sanitize_dict(_sanitize_dict(d)) = _sanitize_dict(d).
C14_Idempotent ==
    InLog("sanitize") =>
        LET d == writes[1].content.data
        IN /\ files[widget.model_file_name_input].data = _sanitize_dict(d)
           /\ _sanitize_dict(_sanitize_dict(d)) = _sanitize_dict(d)

\* C14 for the mappings in which no dictionary becomes empty by sanitizing.
C14_IdempotentWithoutEmptied ==
    (InLog("sanitize") /\ ~HasEmptyEntry(_sanitize_dict(writes[1].content.data)))
        => C14_Idempotent

\* The number of k >= 0 with start + k * step < stop, in exact arithmetic.
PointsBelow(start, stop, step) == ((stop.n - start.n) * step.d + step.n - 1) \div step.n

\* C11, time axis: for timepoints_max = n and a step s > 0 the time axis has
\* exactly n points, and they are 0, s, 2s, ..., (n-1)s.
C11_TimeAxis ==
    InLog("build_config") =>
        LET n == widget.timepoints_max_input.n
            s == widget.timepoints_stepsize_input
            time_axis == config.coordinates.time
        IN /\ Len(time_axis) = n
           /\ \A i \in 1..Len(time_axis) : time_axis[i] = Mul(PyInt(i - 1), s)

\* C11, spectral axis: for wavelength_min <= wavelength_max and a step w > 0
\* the spectral axis starts at wavelength_min, has one point for every value
\* wavelength_min + k * w strictly below wavelength_max, and holds no point
\* that is not strictly below wavelength_max.
C11_SpectralAxis ==
    InLog("build_config") =>
        LET wavelength_min == widget.wavelength_min_input
            wavelength_max == widget.wavelength_max_input
            w == widget.wavelength_stepsize_input
            spectral_axis == config.coordinates.spectral
        IN /\ Len(spectral_axis) = PointsBelow(wavelength_min, wavelength_max, w)
           /\ Len(spectral_axis) > 0 => spectral_axis[1] = wavelength_min
           /\ \A i \in 1..Len(spectral_axis) : Less(spectral_axis[i], wavelength_max)

\* C11: generate_simulation_coordinates returns a time axis of exactly
\* timepoints_max points 0, s, 2s, ... and a spectral axis that starts at
\* wavelength_min, advances by the step and holds every such value strictly
\* below wavelength_max and never wavelength_max itself.
C11_Axes == C11_TimeAxis /\ C11_SpectralAxis

\* C11 for steps that are whole numbers, where no operation rounds.
C11_WholeStepAxes ==
    (IsWhole(widget.timepoints_stepsize_input) /\ IsWhole(widget.wavelength_stepsize_input))
        => C11_Axes

====
